---- MODULE Spec2Model ----
(***************************************************************************)
(* Vacation manager (src/app.py): a Streamlit script over four files kept  *)
(* in a GitHub repository.  Every user interaction re-runs the script:     *)
(* load_data() (cached process-wide), then at most one button/form handler *)
(* which reads the file's sha, and PUTs the whole collection back.         *)
(*                                                                         *)
(* Strings of the source are written in ASCII:                             *)
(*   status     "pending" = 대기, "approved" = 승인, "rejected" = 반려       *)
(*   leave_type "annual" = 연차, "half" = 반차, "sick" = 병가, "other" = 기타 *)
(* Dates are day numbers 1..MaxDay.  request_date (the day of submission)  *)
(* is not modelled: no handler reads it.                                   *)
(***************************************************************************)
EXTENDS Integers, Sequences, FiniteSets, TLC

\* ---------------------------------------------------------------- bounds
MaxDay == 1
\* Script runs and read failures of a history of Spec.
MaxRuns == 4
MaxFaults == 1
\* Script runs of a history of SpecRace, SpecSeq, SpecSolo and SpecAdmin.
RaceRuns == 2
SeqRuns == 4
SoloRuns == 2
AdminRuns == 3
\* Script runs of a history of SpecLoad and SpecAssistant.
LoadRuns == 3
AssistRuns == 2

Sessions == {"s1", "s2"}
Names == {"A", "B"}
Days == 1..MaxDay
\* The end date of the form may also lie before the first day.
EndDays == 0..MaxDay
SubmitLeaveTypes == {"annual"}
InitLimits == {1, 2}

\* Inputs of the administrator's forms.
AdminNames == {"A", "B", "C"}
\* st.text_input("이름") of the add form may be left empty.
NewNames == AdminNames \cup {""}
AdminLeaveDays == {2}
AdminLimits == {1, 2}

\* Inputs of the eligibility and balance computations.
ValMaxDay == 2
ValNames == {"A", "B", "C"}
ValRowCounts == 0..2
ValLimits == 1..3
ValTotals == {0, 3}
Statuses == {"pending", "approved", "rejected"}
LeaveTypes == {"annual", "half", "sick", "other"}

\* ------------------------------------------------------- program constants
DefaultDailyLimit == 5

EMPLOYEES_FILE_PATH == "employees"
VACATIONS_FILE_PATH == "vacations"
CONFIG_FILE_PATH == "config"
CONSTRAINTS_FILE_PATH == "constraints"
FilePaths ==
  {EMPLOYEES_FILE_PATH, VACATIONS_FILE_PATH, CONFIG_FILE_PATH, CONSTRAINTS_FILE_PATH}

VARIABLES
  store,   \* the repository: path -> [exists, rows, request_date]
  cache,   \* st.cache_data entry of load_data: [valid, data]
  faults,  \* transport failures of reads so far (bounded)
  runs,    \* script runs started so far (bounded)
  pc,      \* per session: position of its script run
  snap,    \* per session: the tuple load_data() returned to this run
  op,      \* per session: the handler's locals from its GET to its end
  last,    \* what the handler that acted last has shown and done (observation)
  probe,   \* arguments and result of the last evaluation of a sidebar or form
           \* computation on snap["s1"] (SpecEligibility, SpecBalance)
  loading, \* per session: the progress of its load_data() call on a cache miss
  messages, \* per session: st.session_state.messages, the chat history
  pd_version \* the pandas the build runs on (the repository pins none)

vars ==
  <<store, cache, faults, runs, pc, snap, op, last, probe, loading, messages,
    pd_version>>

\* ------------------------------------------------------------ the store
\* A stored file: its rows and, for data/vacations.csv, the text of the
\* request_date cell of each row, given by its layout; the day it names is
\* not modelled.
NoFile == [exists |-> FALSE, rows |-> <<>>, request_date |-> <<>>]
FileOf(rows, request_date) ==
  [exists |-> TRUE, rows |-> rows, request_date |-> request_date]
File(rows) == FileOf(rows, <<>>)

\* The blob sha GitHub returns: a collision-free function of the content.
Sha(rows, request_date) == <<"blob", rows, request_date>>
NoSha == <<"none">>

\* GET .../contents/path: (content, sha) on 200; (None, None) on 404 and on
\* every other status (a transport failure).
get_github_file_content(file, fail) ==
  IF file.exists /\ ~fail
  THEN [found |-> TRUE, content |-> file.rows, request_date |-> file.request_date,
        sha |-> Sha(file.rows, file.request_date)]
  ELSE [found |-> FALSE, content |-> <<>>, request_date |-> <<>>, sha |-> NoSha]

\* PUT with a sha: 200 iff the file exists, the sha is its current blob sha
\* and the transport works.
UpdateAccepted(file, sha, net) ==
  net /\ file.exists /\ sha = Sha(file.rows, file.request_date)

\* PUT without a sha: 201 iff the file does not exist and the transport works.
CreateAccepted(file, net) == net /\ ~file.exists

\* Content of data/config.json holding {"daily_limit": n}.
ConfigJson(n) == <<n>>

\* ---------------------------------------------------------- the snapshot
\*   dated: the date columns of vacations_df are datetime64, as read_csv and
\*   pd.to_datetime leave them; an empty frame built by pd.DataFrame(columns=...)
\*   has columns of dtype object.
EmptySnap ==
  [employees |-> <<>>, vacations |-> <<>>, dated |-> FALSE, daily_limit |-> 0,
   constraints |-> <<>>, failed |-> {}]
NoCache == [valid |-> FALSE, data |-> EmptySnap]

\* The versions of pandas a build may run on, by what pd.to_datetime does
\* with a column of strings: 1.x parses each string on its own, 2.x takes the
\* layout of the first string for the whole column.
PandasVersions == {"1.x", "2.x"}

\* The two texts a request_date cell is written as.
DateText == "%Y-%m-%d"
StampText == "%Y-%m-%d %H:%M:%S"

\* pd.to_datetime(vacations_df['request_date']) raises ValueError ("time data
\* doesn't match format"): under 2.x, when a cell has another layout than
\* the first.
to_datetime_raises(request_date) ==
  /\ pd_version = "2.x"
  /\ \E i \in 1..Len(request_date) : request_date[i] # request_date[1]

\* load_data() raises instead of returning: the vacations file was read and
\* its request_date column does not convert.  Nothing is cached then and the
\* script run ends.
load_data_raises(st, failed) ==
  LET v == get_github_file_content(st[VACATIONS_FILE_PATH], VACATIONS_FILE_PATH \in failed)
  IN v.found /\ to_datetime_raises(v.request_date)

\* The request_date column of a frame load_data() returned: every cell a
\* Timestamp.  A new_request holds a str there (strftime).
request_date_column(vacations_df) ==
  [i \in 1..Len(vacations_df) |-> "Timestamp"]

\* DataFrame.to_csv(index=False, date_format='%Y-%m-%d') for the rows and the
\* request_date column of a frame: date_format applies to a datetime64
\* column; in a column of dtype object (one that holds a str) a Timestamp is
\* written by str(), with its time, and a str as it is.
to_csv(rows, column) ==
  [rows |-> rows,
   request_date |->
     IF \A i \in 1..Len(column) : column[i] = "Timestamp"
     THEN [i \in 1..Len(column) |-> DateText]
     ELSE [i \in 1..Len(column) |->
             IF column[i] = "Timestamp" THEN StampText ELSE DateText]]

\* load_data() when it returns: four GETs; a file that is missing or fails to
\* load becomes an empty frame without datetime columns, a missing config
\* becomes {"daily_limit": 5}.  `failed` records which GETs failed by
\* transport (not visible to the program).  The files hold what the handlers
\* wrote (a header line and rows, or the JSON object): other content is not
\* modelled.
load_data(st, failed) ==
  LET e == get_github_file_content(st[EMPLOYEES_FILE_PATH], EMPLOYEES_FILE_PATH \in failed)
      v == get_github_file_content(st[VACATIONS_FILE_PATH], VACATIONS_FILE_PATH \in failed)
      c == get_github_file_content(st[CONFIG_FILE_PATH], CONFIG_FILE_PATH \in failed)
      k == get_github_file_content(st[CONSTRAINTS_FILE_PATH], CONSTRAINTS_FILE_PATH \in failed)
  IN [employees |-> IF e.found THEN e.content ELSE <<>>,
      vacations |-> IF v.found THEN v.content ELSE <<>>,
      dated |-> v.found,
      daily_limit |-> IF c.found /\ Len(c.content) > 0 THEN c.content[1]
                      ELSE DefaultDailyLimit,
      constraints |-> IF k.found THEN k.content ELSE <<>>,
      failed |-> failed]

employee_list(s) == [i \in 1..Len(s.employees) |-> s.employees[i].employee_name]

SeqRange(q) == {q[i] : i \in 1..Len(q)}

\* ------------------------------------------------------ eligibility checks
Request(e, sd, ed, lt, st) ==
  [employee_name |-> e, start_date |-> sd, end_date |-> ed,
   leave_type |-> lt, status |-> st]

IsApprovedOn(r, date) ==
  r.start_date <= date /\ r.end_date >= date /\ r.status = "approved"

\* vacations_df[(start_date <= date) & (end_date >= date) & (status == '승인')]
approved_on_date(vacations, date) ==
  SelectSeq(vacations, LAMBDA r : IsApprovedOn(r, date))

approved_on_date_names(vacations, date) ==
  {r.employee_name : r \in SeqRange(approved_on_date(vacations, date))}

\* (a day counted as full only once the limit is passed)
LimitPassed(count, limit) == count > limit

\* The comparison of the first loop: the day is full.
LimitReached(count, limit) == count >= limit

\* First loop: the first date of the range whose approved count has reached
\* the limit, 0 when the loop ends without a break.
RECURSIVE LimitScan(_, _, _, _)
LimitScan(vacations, limit, date, end_date) ==
  IF date > end_date THEN 0
  ELSE IF LimitReached(Len(approved_on_date(vacations, date)), limit) THEN date
  ELSE LimitScan(vacations, limit, date + 1, end_date)

\* constraints_df[(employee_name_1 == selected) | (employee_name_2 == selected)]
user_constraints(constraints, selected_employee) ==
  SelectSeq(constraints, LAMBDA row : row.employee_name_1 = selected_employee
                                      \/ row.employee_name_2 = selected_employee)

constrained_partner(row, selected_employee) ==
  IF row.employee_name_1 = selected_employee THEN row.employee_name_2
  ELSE row.employee_name_1

\* Inner loop over the employee's constraint rows, in stored order: the first
\* partner found among the names, "" when there is none.
RECURSIVE PartnerScan(_, _, _, _)
PartnerScan(rows, i, selected_employee, names) ==
  IF i > Len(rows) THEN ""
  ELSE IF constrained_partner(rows[i], selected_employee) \in names
       THEN constrained_partner(rows[i], selected_employee)
  ELSE PartnerScan(rows, i + 1, selected_employee, names)

\* Second loop: the first date on which a partner is approved.
RECURSIVE ConflictScan(_, _, _, _, _)
ConflictScan(vacations, constraints, selected_employee, date, end_date) ==
  IF date > end_date THEN [day |-> 0, partner |-> ""]
  ELSE LET p == PartnerScan(user_constraints(constraints, selected_employee), 1,
                            selected_employee,
                            approved_on_date_names(vacations, date))
       IN IF p # "" THEN [day |-> date, partner |-> p]
          ELSE ConflictScan(vacations, constraints, selected_employee,
                            date + 1, end_date)

Verdict(kind, day, partner) == [kind |-> kind, day |-> day, partner |-> partner]

\* The validation of the request form for start_date <= end_date: loop 1 over
\* the whole range, then (only if it did not stop) loop 2 over the whole range.
form_validation(s, selected_employee, start_date, end_date) ==
  LET full == LimitScan(s.vacations, s.daily_limit, start_date, end_date)
      hit == ConflictScan(s.vacations, s.constraints, selected_employee,
                          start_date, end_date)
  IN IF full # 0 THEN Verdict("limit", full, "")
     ELSE IF hit.day # 0 THEN Verdict("conflict", hit.day, hit.partner)
     ELSE Verdict("ok", 0, "")

\* The whole `if submitted:` chain before the request is built.
NoEmployee == ""
submit_check(s, selected_employee, start_date, end_date) ==
  IF selected_employee = NoEmployee THEN Verdict("no_employee", 0, "")
  ELSE IF start_date > end_date THEN Verdict("dates", 0, "")
  ELSE form_validation(s, selected_employee, start_date, end_date)

\* (the two st.stop() calls left out: only the if/elif errors end the handler)
StopsOnFormErrorsOnly(verdict) == verdict.kind \in {"no_employee", "dates"}

\* st.error(...) followed by st.stop() / the end of the branch: the handler
\* goes no further.
Stops(verdict) == verdict.kind # "ok"

\* ---------------------------------------------------------- leave balance
\* employees_df[employee_name == selected]['total_leave_days'].iloc[0]
total_leave(employees, selected_employee) ==
  SelectSeq(employees, LAMBDA row : row.employee_name = selected_employee)[1]
    .total_leave_days

\* vacations_df[(employee_name == selected) & (status == '승인') & (leave_type == '연차')]
used_leave_df(vacations, selected_employee) ==
  SelectSeq(vacations, LAMBDA r : /\ r.employee_name = selected_employee
                                  /\ r.status = "approved"
                                  /\ r.leave_type = "annual")

\* What a computation of the script gives: a value, or the exception
\* AttributeError ("Can only use .dt accessor with datetimelike values").
Returned(value) == [raised |-> FALSE, value |-> value]
AttributeError == [raised |-> TRUE, value |-> 0]

\* The sum of (end_date - start_date) in days over the rows of a frame whose
\* date columns are datetime64.
RECURSIVE DayDiffSum(_, _)
DayDiffSum(df, i) ==
  IF i > Len(df) THEN 0
  ELSE (df[i].end_date - df[i].start_date) + DayDiffSum(df, i + 1)

\* (end_date - start_date).dt.days.sum(): .dt raises on a difference of
\* object columns, which is what a frame without datetime columns gives.
dt_days_sum(dated, df) ==
  IF dated THEN Returned(DayDiffSum(df, 1)) ELSE AttributeError

\* used_days of the snapshot s.
used_days(s, selected_employee) ==
  LET df == used_leave_df(s.vacations, selected_employee)
      sum == dt_days_sum(s.dated, df)
  IN IF sum.raised THEN AttributeError ELSE Returned(sum.value + Len(df))

remaining_days(s, selected_employee) ==
  LET used == used_days(s, selected_employee)
  IN IF used.raised THEN AttributeError
     ELSE Returned(total_leave(s.employees, selected_employee) - used.value)

\* (a sidebar block that never raises, as over an empty frame with datetime
\* columns)
sidebar_completes(s) == FALSE

\* The sidebar block of a run (if not employees_df.empty and
\* selected_employee): the selectbox holds the first employee unless another
\* is chosen, so the balance is computed whenever there is an employee, and
\* an exception there ends the run before the tabs and their handlers.
sidebar_raises(s) ==
  Len(s.employees) > 0 /\ remaining_days(s, s.employees[1].employee_name).raised

\* --------------------------------------------------------- session state
\* The locals of a handler from its GET to its end.
\*   verdict: what the validation of this run has shown ("none" when the
\*   handler has none); failed: the GETs of the run's load_data that failed;
\*   put: "none" | "accepted" | "refused", what the PUT returned once it has
\*   been made; stale: that PUT carried a sha other than the file's current one.
\*   csv, request_date: the text to_csv gave, as rows and request_date cells;
\*   get_failed: the handler's own GET failed by transport (observation: the
\*   handler sees (None, None) as for an absent file).
Op(kind, path, got, csv, index, verdict, failed) ==
  [kind |-> kind, path |-> path, found |-> got.found, sha |-> got.sha,
   csv |-> csv.rows, request_date |-> csv.request_date, index |-> index,
   verdict |-> verdict, failed |-> failed, put |-> "none", stale |-> FALSE,
   get_failed |-> FALSE]
NoOp ==
  [kind |-> "none", path |-> "", found |-> FALSE, sha |-> NoSha, csv |-> <<>>,
   request_date |-> <<>>, index |-> 0, verdict |-> "none", failed |-> {},
   put |-> "none", stale |-> FALSE, get_failed |-> FALSE]

\* What a handler has shown to its user and done to the store.
\*   handler: "submit" | "approve" | "reject" | "add_employee" |
\*            "delete_employee" | "save_limit" | "add_constraint";
\*   verdict: "none" | "ok" | "no_employee" | "dates" | "limit" | "conflict" |
\*            "exists", the result of the handler's validation;
\*   put: "none" | "accepted" | "refused", the store's answer to its PUT;
\*   stale: the PUT carried a sha that was not the file's current one;
\*   report: "none" | "success" | "warning" | "error", the last st.* message,
\*   or "stopped" when the run was stopped before the handler's message.
Outcome(handler, verdict, put, stale, report) ==
  [handler |-> handler, verdict |-> verdict, put |-> put, stale |-> stale,
   report |-> report]
NoOutcome == Outcome("none", "none", "none", FALSE, "none")

\* A validation error was shown.
Invalid(outcome) == outcome.verdict \notin {"none", "ok"}

CurrentSha(file) ==
  IF file.exists THEN Sha(file.rows, file.request_date) ELSE NoSha

\* Which PUT a handler issues after its GET.  Submit updates when the GET
\* returned content and creates otherwise; the limit and constraint handlers
\* update when it returned a sha and create otherwise; approve, reject and the
\* employee handlers always update, with the sha they got (None included).
PutCall(o) ==
  IF o.kind \in {"submit", "save_limit", "add_constraint"}
  THEN IF o.found THEN "update" ELSE "create"
  ELSE "update"

\* The store's answer to that PUT.
PutAccepted(o, file, net) ==
  IF PutCall(o) = "create" THEN CreateAccepted(file, net)
  ELSE UpdateAccepted(file, o.sha, net)

Employee(name, days) == [employee_name |-> name, total_leave_days |-> days]
Constraint(a, b) == [employee_name_1 |-> a, employee_name_2 |-> b]

NoProbe ==
  [fn |-> "none", employee |-> "", start_date |-> 0, end_date |-> 0,
   verdict |-> Verdict("none", 0, ""), remaining |-> 0, raised |-> FALSE]

\* A repository with two employees, a vacations file of the header line only,
\* the limit and one constraint.
InitStore(limit) ==
  [f \in FilePaths |->
     CASE f = EMPLOYEES_FILE_PATH -> File(<<Employee("A", 1), Employee("B", 2)>>)
       [] f = VACATIONS_FILE_PATH -> FileOf(<<>>, <<>>)
       [] f = CONFIG_FILE_PATH -> File(ConfigJson(limit))
       [] f = CONSTRAINTS_FILE_PATH -> File(<<Constraint("A", "B")>>)]

\* A repository that holds none of the data files yet.
FreshStore == [f \in FilePaths |-> NoFile]

\* A repository with everything but the vacations file.
NoVacationsStore == [InitStore(1) EXCEPT ![VACATIONS_FILE_PATH] = NoFile]

\* A repository in use: B's request for day 1 is approved, A's request for
\* the same day is pending; the file is as an approve or reject writes it.
BusyStore ==
  [InitStore(1) EXCEPT
     ![VACATIONS_FILE_PATH] =
        FileOf(<<Request("B", 1, 1, "annual", "approved"),
                 Request("A", 1, 1, "annual", "pending")>>,
               <<DateText, DateText>>)]

\* load_data() reads the four files in this order.
LoadOrder ==
  <<EMPLOYEES_FILE_PATH, VACATIONS_FILE_PATH, CONFIG_FILE_PATH, CONSTRAINTS_FILE_PATH>>

\* A load_data() call in progress: `next` is the position in LoadOrder of the
\* GET to come (0 when no call is running), `view` holds each file as its GET
\* found it, `failed` the GETs that failed by transport, `cached` whether the
\* result will still be stored in the cache, `moments` the contents the
\* store has had since the call began (observation).
NoLoading ==
  [next |-> 0, view |-> FreshStore, failed |-> {}, cached |-> FALSE, moments |-> {}]

\* What a PUT the store has taken means for the load_data() calls in
\* progress: the store has a new content.
PutSeen(st) ==
  [t \in Sessions |->
     IF pc[t] = "loading"
     THEN [loading[t] EXCEPT !.moments = @ \cup {st}]
     ELSE loading[t]]

\* st.cache_data.clear(): the cache a running call would fill is dropped.
CacheCleared(cleared) ==
  [t \in Sessions |->
     IF pc[t] = "loading"
     THEN [loading[t] EXCEPT !.cached = @ /\ ~cleared]
     ELSE loading[t]]

Init ==
  /\ \/ \E limit \in InitLimits : store = InitStore(limit)
     \/ store = FreshStore
     \/ store = NoVacationsStore
     \/ store = BusyStore
  /\ cache = NoCache
  /\ faults = 0
  /\ runs = 0
  /\ pc = [s \in Sessions |-> "idle"]
  /\ snap = [s \in Sessions |-> EmptySnap]
  /\ op = [s \in Sessions |-> NoOp]
  /\ last = NoOutcome
  /\ probe = NoProbe
  /\ loading = [s \in Sessions |-> NoLoading]
  /\ messages = [s \in Sessions |-> <<>>]
  /\ pd_version \in PandasVersions

\* ------------------------------------------------------------ script run
\* Where a run stands once load_data() has returned `data`: at the tabs, or
\* at its end when the sidebar block raised; and the tuple it goes on with.
Reached(data) == IF sidebar_raises(data) THEN "idle" ELSE "loaded"
Handed(data) == IF sidebar_raises(data) THEN EmptySnap ELSE data

\* Top of the script: load_data() through st.cache_data, then the sidebar.
\* On a hit the cached tuple is returned.  On a miss the call begins with the GET of the first
\* file; st.cache_data lets one call at a time compute the entry, so a miss
\* waits while another session's call is filling the cache.
Load(s, maxRuns, maxFaults) ==
  /\ pc[s] = "idle"
  /\ runs < maxRuns
  /\ runs' = runs + 1
  /\ IF cache.valid
     THEN /\ snap' = [snap EXCEPT ![s] = Handed(cache.data)]
          /\ pc' = [pc EXCEPT ![s] = Reached(cache.data)]
          /\ UNCHANGED <<cache, faults, loading>>
     ELSE /\ \A t \in Sessions : ~(pc[t] = "loading" /\ loading[t].cached)
          /\ \E fail \in BOOLEAN :
               /\ faults + (IF fail THEN 1 ELSE 0) <= maxFaults
               /\ faults' = faults + (IF fail THEN 1 ELSE 0)
               /\ loading' =
                    [loading EXCEPT ![s] =
                       [next |-> 2,
                        view |-> [FreshStore EXCEPT
                                    ![LoadOrder[1]] = store[LoadOrder[1]]],
                        failed |-> IF fail THEN {LoadOrder[1]} ELSE {},
                        cached |-> TRUE,
                        moments |-> {store}]]
          /\ pc' = [pc EXCEPT ![s] = "loading"]
          /\ UNCHANGED <<cache, snap>>
  /\ UNCHANGED <<store, op, last>>

\* The next GET of a running load_data(); after the last one the frames are
\* built: either that raises and the run ends, or the tuple is stored in the
\* cache and returned to the run, which goes through the sidebar.
Fetch(s, maxFaults) ==
  /\ pc[s] = "loading"
  /\ \E fail \in BOOLEAN :
       LET f == LoadOrder[loading[s].next]
           view == [loading[s].view EXCEPT ![f] = store[f]]
           failed == IF fail THEN loading[s].failed \cup {f} ELSE loading[s].failed
           data == load_data(view, failed)
       IN /\ faults + (IF fail THEN 1 ELSE 0) <= maxFaults
          /\ faults' = faults + (IF fail THEN 1 ELSE 0)
          /\ IF loading[s].next < Len(LoadOrder)
             THEN /\ loading' = [loading EXCEPT ![s].next = @ + 1,
                                                ![s].view = view,
                                                ![s].failed = failed]
                  /\ UNCHANGED <<pc, snap, cache>>
             ELSE IF load_data_raises(view, failed)
             THEN /\ loading' = [loading EXCEPT ![s] = NoLoading]
                  /\ pc' = [pc EXCEPT ![s] = "idle"]
                  /\ snap' = [snap EXCEPT ![s] = EmptySnap]
                  /\ UNCHANGED cache
             ELSE /\ loading' = [loading EXCEPT ![s] = NoLoading]
                  /\ pc' = [pc EXCEPT ![s] = Reached(data)]
                  /\ snap' = [snap EXCEPT ![s] = Handed(data)]
                  /\ cache' = IF loading[s].cached
                              THEN [valid |-> TRUE, data |-> data]
                              ELSE cache
  /\ UNCHANGED <<store, runs, op, last>>

\* ttl=300: the cached entry expires.
ExpireCache ==
  /\ cache.valid
  /\ cache' = NoCache
  /\ UNCHANGED <<store, faults, runs, pc, snap, op, last, loading>>

\* The run ends with no button pressed.
EndRun(s) ==
  /\ pc[s] = "loaded"
  /\ pc' = [pc EXCEPT ![s] = "idle"]
  /\ snap' = [snap EXCEPT ![s] = EmptySnap]
  /\ UNCHANGED <<store, cache, faults, runs, op, last, loading>>

\* The handler's GET of `path` for its sha, which may fail by transport; the
\* handler then waits to PUT with the locals locals_of[got].
Gots(file) == {get_github_file_content(file, fail) : fail \in BOOLEAN}

ReadForPut(s, path, maxFaults, locals_of, nextpc) ==
  \E fail \in BOOLEAN :
    /\ faults + (IF fail THEN 1 ELSE 0) <= maxFaults
    /\ faults' = faults + (IF fail THEN 1 ELSE 0)
    /\ op' = [op EXCEPT ![s] =
                 [locals_of[get_github_file_content(store[path], fail)]
                    EXCEPT !.get_failed = fail]]
    /\ pc' = [pc EXCEPT ![s] = nextpc]
    /\ snap' = [snap EXCEPT ![s] = EmptySnap]

\* The options of the sidebar selectbox: None when there is no employee.
SelectableEmployees(s) ==
  IF Len(snap[s].employees) = 0 THEN {NoEmployee}
  ELSE SeqRange(employee_list(snap[s]))

\* The content submit writes: pd.concat([vacations_df, new_request]) when the
\* GET returned content, the new request alone otherwise, through to_csv.
updated_csv(found, vacations_df, new_request) ==
  IF found
  THEN to_csv(Append(vacations_df, new_request),
              Append(request_date_column(vacations_df), "str"))
  ELSE to_csv(<<new_request>>, <<"str">>)

\* "신청하기": validation over the run's snapshot; when it passes, the new
\* request is built and the vacations file is read for its sha.
SubmitBegin(s, selected_employee, leave_type, start_date, end_date, maxFaults) ==
  LET verdict == submit_check(snap[s], selected_employee, start_date, end_date)
      new_request == Request(selected_employee, start_date, end_date,
                             leave_type, "pending")
      Locals ==
        [got \in Gots(store[VACATIONS_FILE_PATH]) |->
            Op("submit", VACATIONS_FILE_PATH, got,
               updated_csv(got.found, snap[s].vacations, new_request),
               0, verdict.kind, snap[s].failed)]
  IN /\ pc[s] = "loaded"
     /\ selected_employee \in SelectableEmployees(s)
     /\ IF Stops(verdict)
        THEN /\ pc' = [pc EXCEPT ![s] = "idle"]
             /\ snap' = [snap EXCEPT ![s] = EmptySnap]
             /\ last' = Outcome("submit", verdict.kind, "none", FALSE, "error")
             /\ UNCHANGED <<op, faults>>
        ELSE /\ ReadForPut(s, VACATIONS_FILE_PATH, maxFaults, Locals, "submit_put")
             /\ last' = IF verdict.kind # "ok"
                        THEN Outcome("submit", verdict.kind, "none", FALSE, "error")
                        ELSE last
     /\ UNCHANGED <<store, cache, runs, loading>>

\* requests.put of a handler, as the store takes or refuses it: update or
\* create returns True or False to the handler.
PutStep(s, net, nextpc) ==
  LET file == store[op[s].path]
      accepted == PutAccepted(op[s], file, net)
  IN /\ store' = IF accepted
                 THEN [store EXCEPT ![op[s].path] =
                                      FileOf(op[s].csv, op[s].request_date)]
                 ELSE store
     /\ op' = [op EXCEPT ![s].put = IF accepted THEN "accepted" ELSE "refused",
                          ![s].stale = (PutCall(op[s]) = "update"
                                          /\ op[s].sha # CurrentSha(file))]
     /\ pc' = [pc EXCEPT ![s] = nextpc]
     /\ loading' = PutSeen(store')
     /\ UNCHANGED <<cache, last, faults, runs, snap>>

\* What follows the PUT in a handler: the st.* message `report`, then
\* st.cache_data.clear() and st.rerun() when `clears`.  The run is `stopped`
\* at the message when the session has asked for a rerun meanwhile (the
\* runtime ends a script at its next st.* call): nothing is shown or cleared.
EndHandler(s, stopped, report, clears) ==
  /\ last' = Outcome(op[s].kind, op[s].verdict, op[s].put, op[s].stale,
                     IF stopped THEN "stopped" ELSE report)
  /\ cache' = IF clears /\ ~stopped THEN NoCache ELSE cache
  /\ loading' = CacheCleared(clears /\ ~stopped)
  /\ pc' = [pc EXCEPT ![s] = "idle"]
  /\ op' = [op EXCEPT ![s] = NoOp]
  /\ UNCHANGED <<store, faults, runs, snap>>

\* The PUT of the submit handler: update_github_file with the sha just read
\* when the GET returned content, create_github_file otherwise.
SubmitWrite(s, net) ==
  /\ pc[s] = "submit_put"
  /\ PutStep(s, net, "submit_done")

\* After it: on success st.success, st.cache_data.clear(), st.rerun(); on
\* failure st.error.
SubmitFinish(s, stopped) ==
  /\ pc[s] = "submit_done"
  /\ EndHandler(s, stopped, IF op[s].put = "accepted" THEN "success" ELSE "error",
                op[s].put = "accepted")

\* pending_requests = vacations_df[status == '대기']: the rows that get buttons.
PendingIndexes(vacations) ==
  {i \in 1..Len(vacations) : vacations[i].status = "pending"}

\* "승인" / "반려" of row `index`: vacations_df.loc[index, 'status'] = status on
\* the run's snapshot, then the vacations file is read for its sha.
DecideBegin(s, index, kind, status, maxFaults) ==
  LET Locals ==
        [got \in Gots(store[VACATIONS_FILE_PATH]) |->
            Op(kind, VACATIONS_FILE_PATH, got,
               to_csv([snap[s].vacations EXCEPT ![index].status = status],
                      request_date_column(snap[s].vacations)), index,
               "none", snap[s].failed)]
  IN /\ pc[s] = "loaded"
     /\ index \in PendingIndexes(snap[s].vacations)
     /\ ReadForPut(s, VACATIONS_FILE_PATH, maxFaults, Locals, "decide_put")
     /\ UNCHANGED <<store, cache, runs, last, loading>>

ApproveBegin(s, index, maxFaults) ==
  DecideBegin(s, index, "approve", "approved", maxFaults)

RejectBegin(s, index, maxFaults) ==
  DecideBegin(s, index, "reject", "rejected", maxFaults)

\* (the result of update_github_file not looked at, as the limit handler does)
DecideReportUnchecked(kind, accepted) ==
  IF kind = "approve" THEN "success" ELSE "warning"

\* What the approve / reject handler shows after its PUT: st.success or
\* st.warning when update_github_file returned True, st.error otherwise.
DecideReport(kind, accepted) ==
  IF ~accepted THEN "error"
  ELSE IF kind = "approve" THEN "success"
  ELSE "warning"

\* The PUT of the approve / reject handler: always update_github_file with the
\* sha just read (None when the GET found nothing).
DecideWrite(s, net) ==
  /\ pc[s] = "decide_put"
  /\ PutStep(s, net, "decide_done")

\* After it: on success st.success (approve) or st.warning (reject), cache
\* clear, rerun; on failure st.error.
DecideFinish(s, stopped) ==
  /\ pc[s] = "decide_done"
  /\ EndHandler(s, stopped, DecideReport(op[s].kind, op[s].put = "accepted"),
                op[s].put = "accepted")

\* ------------------------------------------------- administrator handlers
\* add_employee_form (if add_submitted and new_name): with an empty name
\* nothing is done or shown; an existing name is refused; otherwise the row
\* is appended and the employees file is read for its sha.
AddEmployeeBegin(s, new_name, new_days, maxFaults) ==
  LET Locals ==
        [got \in Gots(store[EMPLOYEES_FILE_PATH]) |->
            Op("add_employee", EMPLOYEES_FILE_PATH, got,
               to_csv(Append(snap[s].employees, Employee(new_name, new_days)), <<>>), 0,
               "ok", snap[s].failed)]
  IN /\ pc[s] = "loaded"
     /\ IF new_name = ""
        THEN /\ pc' = [pc EXCEPT ![s] = "idle"]
             /\ snap' = [snap EXCEPT ![s] = EmptySnap]
             /\ UNCHANGED <<op, faults, last>>
        ELSE IF new_name \in SeqRange(employee_list(snap[s]))
        THEN /\ pc' = [pc EXCEPT ![s] = "idle"]
             /\ snap' = [snap EXCEPT ![s] = EmptySnap]
             /\ last' = Outcome("add_employee", "exists", "none", FALSE, "error")
             /\ UNCHANGED <<op, faults>>
        ELSE /\ ReadForPut(s, EMPLOYEES_FILE_PATH, maxFaults, Locals, "admin_put")
             /\ UNCHANGED last
     /\ UNCHANGED <<store, cache, runs, probe, loading, messages>>

\* "삭제": the rows of the chosen employee are dropped from employees_df.
DeleteEmployeeBegin(s, delete_name, maxFaults) ==
  LET Locals ==
        [got \in Gots(store[EMPLOYEES_FILE_PATH]) |->
            Op("delete_employee", EMPLOYEES_FILE_PATH, got,
               to_csv(SelectSeq(snap[s].employees,
                                LAMBDA row : row.employee_name # delete_name), <<>>),
               0, "none", snap[s].failed)]
  IN /\ pc[s] = "loaded"
     /\ delete_name \in SeqRange(employee_list(snap[s]))
     /\ ReadForPut(s, EMPLOYEES_FILE_PATH, maxFaults, Locals, "admin_put")
     /\ UNCHANGED <<store, cache, runs, last, probe, loading, messages>>

\* "최대 인원 설정 저장": config['daily_limit'] = new_limit.
SaveLimitBegin(s, new_limit, maxFaults) ==
  LET Locals ==
        [got \in Gots(store[CONFIG_FILE_PATH]) |->
            Op("save_limit", CONFIG_FILE_PATH, got,
               [rows |-> ConfigJson(new_limit), request_date |-> <<>>], 0,
               "none", snap[s].failed)]
  IN /\ pc[s] = "loaded"
     /\ new_limit >= 1
     /\ ReadForPut(s, CONFIG_FILE_PATH, maxFaults, Locals, "admin_put")
     /\ UNCHANGED <<store, cache, runs, last, probe, loading, messages>>

\* DataFrame.drop_duplicates(): a row equal to an earlier row is dropped.
RECURSIVE KeepFirsts(_, _)
KeepFirsts(rows, i) ==
  IF i > Len(rows) THEN <<>>
  ELSE IF \E j \in 1..(i - 1) : rows[j] = rows[i] THEN KeepFirsts(rows, i + 1)
  ELSE <<rows[i]>> \o KeepFirsts(rows, i + 1)

drop_duplicates(rows) == KeepFirsts(rows, 1)

\* "제약 조건 추가" with emp1 != emp2.
AddConstraintBegin(s, emp1, emp2, maxFaults) ==
  LET Locals ==
        [got \in Gots(store[CONSTRAINTS_FILE_PATH]) |->
            Op("add_constraint", CONSTRAINTS_FILE_PATH, got,
               to_csv(drop_duplicates(Append(snap[s].constraints,
                                             Constraint(emp1, emp2))), <<>>),
               0, "none", snap[s].failed)]
  IN /\ pc[s] = "loaded"
     /\ emp1 \in SeqRange(employee_list(snap[s]))
     /\ emp2 \in SeqRange(employee_list(snap[s]))
     /\ emp1 # emp2
     /\ ReadForPut(s, CONSTRAINTS_FILE_PATH, maxFaults, Locals, "admin_put")
     /\ UNCHANGED <<store, cache, runs, last, probe, loading, messages>>

\* The handlers that do not look at what their PUT returned: they show
\* st.success and clear the cache whatever it was.
IgnoresPutResult(kind) == kind \in {"save_limit", "add_constraint"}

\* The PUT of an administrator handler.  The employee handlers always call
\* update_github_file; the limit and constraint handlers update when the GET
\* returned a sha and create otherwise.
AdminWrite(s, net) ==
  /\ pc[s] = "admin_put"
  /\ PutStep(s, net, "admin_done")
  /\ UNCHANGED <<probe, messages>>

\* After it: the employee handlers show st.success (and clear the cache and
\* rerun) only when the PUT returned True and show nothing otherwise; the
\* limit and constraint handlers show st.success and clear whatever it was.
AdminFinish(s, stopped) ==
  LET shown == op[s].put = "accepted" \/ IgnoresPutResult(op[s].kind)
  IN /\ pc[s] = "admin_done"
     /\ EndHandler(s, stopped, IF shown THEN "success" ELSE "none", shown)
     /\ UNCHANGED <<probe, messages>>

Administration(S, maxFaults) ==
  \/ \E s \in S, n \in NewNames, d \in AdminLeaveDays :
       AddEmployeeBegin(s, n, d, maxFaults)
  \/ \E s \in S, n \in AdminNames : DeleteEmployeeBegin(s, n, maxFaults)
  \/ \E s \in S, l \in AdminLimits : SaveLimitBegin(s, l, maxFaults)
  \/ \E s \in S, a \in AdminNames, b \in AdminNames :
       AddConstraintBegin(s, a, b, maxFaults)
  \/ \E s \in S, net \in BOOLEAN : AdminWrite(s, net)
  \/ \E s \in S, stopped \in BOOLEAN : AdminFinish(s, stopped)

\* ------------------------------------------------------------ assistant
\* One entry of st.session_state.messages.  The text of a question is not
\* modelled; the assistant's entry is the reply or the error text.
Message(role, content) == [role |-> role, content |-> content]

\* A question typed into st.chat_input (the model being configured): without
\* a selected employee a warning and st.stop(); otherwise the question is
\* appended to the history and shown, and the run goes on to build the prompt
\* from its snapshot and to call model.generate_content.
Ask(s, selected_employee) ==
  /\ pc[s] = "loaded"
  /\ selected_employee \in SelectableEmployees(s)
  /\ IF selected_employee = NoEmployee
     THEN /\ pc' = [pc EXCEPT ![s] = "idle"]
          /\ snap' = [snap EXCEPT ![s] = EmptySnap]
          /\ UNCHANGED messages
     ELSE /\ messages' = [messages EXCEPT ![s] = Append(@, Message("user", "prompt"))]
          /\ pc' = [pc EXCEPT ![s] = "asking"]
          /\ UNCHANGED snap
  /\ UNCHANGED <<store, cache, faults, runs, op, last, probe, loading>>

\* (an answer after which the cached snapshot is dropped, as the handlers
\* that write do after their message)
AnswerAndClear(s, replied, stopped) ==
  /\ pc[s] = "asking"
  /\ messages' =
       IF stopped THEN messages
       ELSE [messages EXCEPT ![s] =
               Append(@, Message("assistant", IF replied THEN "reply" ELSE "error"))]
  /\ pc' = [pc EXCEPT ![s] = "idle"]
  /\ snap' = [snap EXCEPT ![s] = EmptySnap]
  /\ cache' = NoCache
  /\ UNCHANGED <<store, faults, runs, op, last, probe, loading>>

\* The rest of the exchange: model.generate_content answers or raises
\* (try/except), the reply or the error text is shown and appended to the
\* history.  The run is `stopped` when the session has asked for a rerun
\* meanwhile: it ends at one of the st.* calls between the two appends and
\* the history keeps the question without an answer.
Answer(s, replied, stopped) ==
  /\ pc[s] = "asking"
  /\ messages' =
       IF stopped THEN messages
       ELSE [messages EXCEPT ![s] =
               Append(@, Message("assistant", IF replied THEN "reply" ELSE "error"))]
  /\ pc' = [pc EXCEPT ![s] = "idle"]
  /\ snap' = [snap EXCEPT ![s] = EmptySnap]
  /\ UNCHANGED <<store, cache, faults, runs, op, last, probe, loading>>

\* The assistant tab.
Assistant(S) ==
  \/ \E s \in S, e \in Names \cup {NoEmployee} : Ask(s, e)
  \/ \E s \in S, replied \in BOOLEAN, stopped \in BOOLEAN : Answer(s, replied, stopped)

\* ------------------------------------------------------- specifications
\* Submit, approve and reject by two sessions of one process, over a store
\* whose employees, daily limit and constraints stay as initialised.
Lifecycle(S, maxRuns, maxFaults) ==
  \/ \E s \in S : Load(s, maxRuns, maxFaults)
  \/ \E s \in S : Fetch(s, maxFaults)
  \/ ExpireCache
  \/ \E s \in S : EndRun(s)
  \/ \E s \in S, e \in Names \cup {NoEmployee}, lt \in SubmitLeaveTypes,
        sd \in Days, ed \in EndDays : SubmitBegin(s, e, lt, sd, ed, maxFaults)
  \/ \E s \in S, net \in BOOLEAN : SubmitWrite(s, net)
  \/ \E s \in S, stopped \in BOOLEAN : SubmitFinish(s, stopped)
  \/ \E s \in S : \E i \in PendingIndexes(snap[s].vacations) :
       ApproveBegin(s, i, maxFaults)
  \/ \E s \in S : \E i \in PendingIndexes(snap[s].vacations) :
       RejectBegin(s, i, maxFaults)
  \/ \E s \in S, net \in BOOLEAN : DecideWrite(s, net)
  \/ \E s \in S, stopped \in BOOLEAN : DecideFinish(s, stopped)

Next == Lifecycle(Sessions, MaxRuns, MaxFaults) /\ UNCHANGED <<probe, messages, pd_version>>

Spec == Init /\ [][Next]_vars

\* The same two sessions with every GET answered (no transport failure of a
\* read), over shorter histories.
NextRace == Lifecycle(Sessions, RaceRuns, 0) /\ UNCHANGED <<probe, messages, pd_version>>

SpecRace == Init /\ [][NextRace]_vars

\* One session alone and every GET answered: sequential use.
NextSeq == Lifecycle({"s1"}, SeqRuns, 0) /\ UNCHANGED <<probe, messages, pd_version>>

SpecSeq == Init /\ [][NextSeq]_vars

\* One session alone, transport failures included.
NextSolo == Lifecycle({"s1"}, SoloRuns, MaxFaults) /\ UNCHANGED <<probe, messages, pd_version>>

SpecSolo == Init /\ [][NextSolo]_vars

\* One session that also administers employees, limit and constraints.
NextAdmin ==
  \/ Lifecycle({"s1"}, AdminRuns, MaxFaults) /\ UNCHANGED <<probe, messages, pd_version>>
  \/ Administration({"s1"}, MaxFaults) /\ UNCHANGED pd_version

SpecAdmin == Init /\ [][NextAdmin]_vars

\* Two sessions, of which s2 may administer, with every GET answered.
NextLoad ==
  \/ Lifecycle(Sessions, LoadRuns, 0) /\ UNCHANGED <<probe, messages, pd_version>>
  \/ Administration({"s2"}, 0) /\ UNCHANGED pd_version

SpecLoad == Init /\ [][NextLoad]_vars

\* One session that also asks the assistant.
NextAssistant ==
  \/ Lifecycle({"s1"}, AssistRuns, MaxFaults) /\ UNCHANGED <<probe, messages, pd_version>>
  \/ Assistant({"s1"}) /\ UNCHANGED pd_version

SpecAssistant == Init /\ [][NextAssistant]_vars

\* ------------------------------------------- the computations on their own
\* The snapshot of session s1 is drawn from bounded sets and the computation
\* is applied to it.  Nothing is parsed or written here: the tuple is one
\* that load_data() has returned, under either pandas.
SeqsUpTo(S, counts) == UNION {[1..n -> S] : n \in counts}

ValRequests(types) ==
  {Request(e, sd, ed, lt, st) :
     e \in ValNames, sd \in 1..ValMaxDay, ed \in 1..ValMaxDay,
     lt \in types, st \in Statuses}

DatedRequests(types) == {r \in ValRequests(types) : r.start_date <= r.end_date}

\* Pairs in both orders, with the employee first and second, and without it.
ValConstraints ==
  {Constraint("A", "B"), Constraint("B", "A"), Constraint("C", "A"),
   Constraint("B", "C")}

ValEmployees(total) ==
  <<Employee("A", total), Employee("B", total), Employee("C", total)>>

EligibilitySnaps ==
  {[employees |-> ValEmployees(3), vacations |-> v, dated |-> TRUE,
    daily_limit |-> l, constraints |-> c, failed |-> {}] :
     v \in SeqsUpTo(DatedRequests({"annual"}), ValRowCounts),
     l \in ValLimits,
     c \in SeqsUpTo(ValConstraints, ValRowCounts)}

BalanceSnaps ==
  {sn \in {[employees |-> ValEmployees(t), vacations |-> v, dated |-> d,
             daily_limit |-> 1, constraints |-> <<>>, failed |-> {}] :
              v \in SeqsUpTo(DatedRequests(LeaveTypes), ValRowCounts),
              t \in ValTotals, d \in BOOLEAN} :
     sn.dated \/ sn.vacations = <<>>}

InitOn(snaps) ==
  /\ store = InitStore(1)
  /\ cache = NoCache
  /\ faults = 0
  /\ runs = 0
  /\ pc = [s \in Sessions |-> IF s = "s1" THEN "loaded" ELSE "idle"]
  /\ \E sn \in snaps : snap = [s \in Sessions |-> IF s = "s1" THEN sn ELSE EmptySnap]
  /\ op = [s \in Sessions |-> NoOp]
  /\ last = NoOutcome
  /\ probe = NoProbe
  /\ loading = [s \in Sessions |-> NoLoading]
  /\ messages = [s \in Sessions |-> <<>>]
  /\ pd_version = "2.x"

\* The two validation loops of the form on the snapshot of s1.
Validate(selected_employee, start_date, end_date) ==
  /\ start_date <= end_date
  /\ probe' = [NoProbe EXCEPT
                 !.fn = "validate", !.employee = selected_employee,
                 !.start_date = start_date, !.end_date = end_date,
                 !.verdict = form_validation(snap["s1"], selected_employee,
                                             start_date, end_date)]
  /\ UNCHANGED <<store, cache, faults, runs, pc, snap, op, last, loading, messages,
                 pd_version>>

NextEligibility ==
  \E sd \in 1..ValMaxDay, ed \in 1..ValMaxDay : Validate("A", sd, ed)

SpecEligibility == InitOn(EligibilitySnaps) /\ [][NextEligibility]_vars

\* The sidebar metric "남은 연차" on the snapshot of s1.
Remaining(selected_employee) ==
  /\ probe' = [NoProbe EXCEPT
                 !.fn = "remaining", !.employee = selected_employee,
                 !.raised = remaining_days(snap["s1"], selected_employee).raised,
                 !.remaining = remaining_days(snap["s1"], selected_employee).value]
  /\ UNCHANGED <<store, cache, faults, runs, pc, snap, op, last, loading, messages,
                 pd_version>>

NextBalance == \E e \in ValNames : Remaining(e)

SpecBalance == InitOn(BalanceSnaps) /\ [][NextBalance]_vars

\* ================================================================ claims
StoredVacations == store[VACATIONS_FILE_PATH].rows
StoredLimit == load_data(store, {}).daily_limit
StoredConstraints == store[CONSTRAINTS_FILE_PATH].rows

Covers(r, d) == r.start_date <= d /\ d <= r.end_date
ApprovedCovering(vacations, d) ==
  {i \in 1..Len(vacations) : vacations[i].status = "approved" /\ Covers(vacations[i], d)}

\* C1: on every calendar day the number of stored approved requests whose
\* range covers the day is at most the daily limit.
C1_DailyLimitRespected ==
  \A d \in Days : Cardinality(ApprovedCovering(StoredVacations, d)) <= StoredLimit

\* C2: no two stored approved requests of the two employees of a stored
\* exclusion constraint share a calendar day.
C2_ExclusionRespected ==
  \A k \in 1..Len(StoredConstraints), d \in Days :
    \A i, j \in ApprovedCovering(StoredVacations, d) :
      ~(/\ StoredVacations[i].employee_name = StoredConstraints[k].employee_name_1
        /\ StoredVacations[j].employee_name = StoredConstraints[k].employee_name_2)

Decided(r) == r.status \in {"approved", "rejected"}

\* C3: a stored request that is approved or rejected keeps its status (and
\* its place in the store) in every later step.
C3_DecidedIsFinal ==
  [][\A i \in 1..Len(StoredVacations) :
       Decided(StoredVacations[i])
         => /\ i <= Len(StoredVacations')
            /\ StoredVacations'[i] = StoredVacations[i]]_vars

SameRequest(r, q) ==
  /\ r.employee_name = q.employee_name
  /\ r.start_date = q.start_date
  /\ r.end_date = q.end_date
  /\ r.leave_type = q.leave_type

\* Every stored request is still stored (whatever its status) after the step.
RecordsKept ==
  \A i \in 1..Len(StoredVacations) :
    /\ i <= Len(StoredVacations')
    /\ SameRequest(StoredVacations[i], StoredVacations'[i])

\* The store answers the PUT of session s's submit, approve or reject in
\* this step.
Puts(s) ==
  pc[s] \in {"submit_put", "decide_put"} /\ pc'[s] \in {"submit_done", "decide_done"}

\* The handler of session s ends in this step, its PUT made.
Finishes(s) ==
  pc[s] \in {"submit_done", "decide_done", "admin_done"} /\ pc'[s] = "idle"

\* C4: a write by a session whose snapshot was read without failure never
\* removes a request another session has persisted since: every stored
\* request is still stored after every step.
C4_NoLostUpdate ==
  [][\A s \in Sessions : (Puts(s) /\ op[s].failed = {}) => RecordsKept]_vars

\* Every row the file at `path` holds is still in it, at its place, after the
\* step (a request possibly with another status).
RowsKept(path) ==
  \A i \in 1..Len(store[path].rows) :
    /\ i <= Len(store'[path].rows)
    /\ \/ store'[path].rows[i] = store[path].rows[i]
       \/ /\ path = VACATIONS_FILE_PATH
          /\ SameRequest(store[path].rows[i], store'[path].rows[i])

\* The store answers the PUT of any handler of session s in this step.
AnyPut(s) ==
  /\ pc[s] \in {"submit_put", "decide_put", "admin_put"}
  /\ pc'[s] \in {"submit_done", "decide_done", "admin_done"}

\* The read of the vacations collection that session s's handler builds on
\* failed by transport: in the load_data() of its run, or in its own GET.
VacationsReadFailed(s) ==
  /\ op[s].path = VACATIONS_FILE_PATH
  /\ VACATIONS_FILE_PATH \in op[s].failed \/ op[s].get_failed

\* C5: after a failed read of the vacations collection no submit, approve or
\* reject persists a collection that omits stored records: the PUT of such a
\* handler keeps every stored row, is refused when the file exists, and the
\* handler then shows an error (or nothing when its run was stopped).
C5_FailedVacationsReadLosesNothing ==
  [][\A s \in Sessions :
       /\ (Puts(s) /\ VacationsReadFailed(s))
            => /\ RowsKept(VACATIONS_FILE_PATH)
               /\ store[VACATIONS_FILE_PATH].exists
                    => store' = store /\ op'[s].put = "refused"
       /\ (Finishes(s) /\ VacationsReadFailed(s) /\ op[s].put = "refused")
            => last'.report \in {"error", "stopped"}]_vars

\* C5 witness: the GET of a submit failed while the file held requests, and
\* the PUT that followed was refused.
C5_Witness ==
  \E s \in Sessions :
    /\ pc[s] = "submit_done"
    /\ op[s].get_failed
    /\ op[s].put = "refused"
    /\ Len(StoredVacations) > 0

\* (the other collections of rows: a write by a session whose load of the
\* collection failed keeps the stored rows; the employee and constraint
\* handlers do not keep this)
OtherFailedReadLosesNothing ==
  [][\A s \in Sessions :
       (AnyPut(s) /\ op[s].path \in op[s].failed /\ op[s].path # CONFIG_FILE_PATH)
         => RowsKept(op[s].path)]_vars

\* (a run whose load_data() GET of the vacations file failed ends in the
\* sidebar or finds no employee and no pending row, and makes no PUT of it)
VacationsReadFailedWritesNone ==
  [][\A s \in Sessions : ~(Puts(s) /\ VACATIONS_FILE_PATH \in op[s].failed)]_vars

\* The PUT session s is about to issue is conditional on a sha that is not the
\* current one of the vacations file.
CarriesStaleSha(s) ==
  /\ \/ op[s].kind \in {"approve", "reject"}
     \/ op[s].kind = "submit" /\ op[s].found
  /\ op[s].sha # CurrentSha(store[VACATIONS_FILE_PATH])

\* C6 (amended): a conditional write of the vacations collection with a sha
\* other than the current one is refused and leaves the store unchanged, and
\* the submit, approve or reject that issued it shows no success: it shows an
\* error, or nothing when its run was stopped before the message.
C6_StaleWriteRefused ==
  [][\A s \in Sessions :
       /\ (Puts(s) /\ CarriesStaleSha(s))
            => /\ store' = store
               /\ op'[s].put = "refused"
               /\ op'[s].stale
       /\ (Finishes(s) /\ op[s].stale /\ op[s].path = VACATIONS_FILE_PATH)
            => /\ last'.put = "refused"
               /\ last'.report \in {"error", "stopped"}
               /\ cache' = cache]_vars

\* C6 witness: an approve or reject whose PUT carried a stale sha has ended
\* with its error shown.
C6_Witness ==
  /\ last.handler \in {"approve", "reject"}
  /\ last.stale
  /\ last.put = "refused"
  /\ last.report = "error"

\* C6 as stated: in addition, after a failed approve or reject the request's
\* stored status is pending.
C6_FailedDecisionLeavesPending ==
  [][\A s \in Sessions :
       (Puts(s) /\ CarriesStaleSha(s) /\ op[s].kind \in {"approve", "reject"})
         => /\ store' = store
            /\ op'[s].put = "refused"
            /\ op[s].index <= Len(StoredVacations')
            /\ StoredVacations'[op[s].index].status = "pending"]_vars

\* C8: a submit that shows a validation error issues no PUT, and the step that
\* shows it leaves every stored collection unchanged.
C8_InvalidSubmitWritesNothing ==
  [][/\ (last'.handler = "submit" /\ Invalid(last')) => last'.put = "none"
     /\ \A s \in Sessions :
          (pc[s] = "loaded" /\ pc'[s] = "idle"
             /\ last'.handler = "submit" /\ Invalid(last'))
            => store' = store]_vars

\* C8 witness: a submit has been turned down because a partner is approved.
C8_Witness ==
  /\ last.handler = "submit"
  /\ last.verdict = "conflict"
  /\ last.put = "none"
  /\ \E s \in Sessions : pc[s] = "idle" /\ runs > 0

\* C9: a handler whose PUT the store refused shows an error when it runs to
\* its end, and a handler shows success only when the store accepted its PUT.
C9_FailureIsReported ==
  /\ (last.put = "refused" /\ last.report # "stopped") => last.report = "error"
  /\ last.report \in {"success", "warning"} => last.put = "accepted"

\* ---- C7: the validation of the form against the reference validate
Min(S) == CHOOSE x \in S : \A y \in S : x <= y

\* constraintsFor(e) of the reference, as a set.
PartnersOf(constraints, e) ==
  {constrained_partner(constraints[k], e) :
     k \in {k \in 1..Len(constraints) :
              e \in {constraints[k].employee_name_1, constraints[k].employee_name_2}}}

ApprovedNamesOn(vacations, d) ==
  {vacations[i].employee_name : i \in ApprovedCovering(vacations, d)}

DayIsFull(s, d) == Cardinality(ApprovedCovering(s.vacations, d)) >= s.daily_limit
DayHasPartner(s, e, d) ==
  PartnersOf(s.constraints, e) \cap ApprovedNamesOn(s.vacations, d) # {}

\* The partner the reference names on day d: that of the first stored
\* constraint of e whose other member is approved on d.
FirstPartner(s, e, d) ==
  LET hits == {k \in 1..Len(s.constraints) :
                 /\ e \in {s.constraints[k].employee_name_1,
                           s.constraints[k].employee_name_2}
                 /\ constrained_partner(s.constraints[k], e)
                      \in ApprovedNamesOn(s.vacations, d)}
  IN constrained_partner(s.constraints[Min(hits)], e)

\* validate(employeeName, startDate, endDate) of the reference: days in
\* increasing order, on each day the daily limit before the partners.
reference_validate(s, e, sd, ed) ==
  LET bad == {d \in sd..ed : DayIsFull(s, d) \/ DayHasPartner(s, e, d)}
  IN IF bad = {} THEN Verdict("ok", 0, "")
     ELSE IF DayIsFull(s, Min(bad)) THEN Verdict("limit", Min(bad), "")
     ELSE Verdict("conflict", Min(bad), FirstPartner(s, e, Min(bad)))

OnlyApproved(s) ==
  [s EXCEPT !.vacations = SelectSeq(s.vacations, LAMBDA r : r.status = "approved")]

\* C7 as stated: the form's validation returns what the reference returns.
C7_SameAsReference ==
  probe.fn = "validate"
    => probe.verdict = reference_validate(snap["s1"], probe.employee,
                                          probe.start_date, probe.end_date)

\* C7 (amended): the form accepts exactly when the reference accepts; when
\* some day of the range is full it reports the first full day, otherwise
\* the first day with an approved partner and the first such partner in
\* stored order; requests that are not approved do not change the result.
C7_TwoPassValidation ==
  probe.fn = "validate" =>
    LET s == snap["s1"]
        e == probe.employee
        range == probe.start_date..probe.end_date
        full == {d \in range : DayIsFull(s, d)}
        partnered == {d \in range : DayHasPartner(s, e, d)}
    IN /\ (probe.verdict.kind = "ok")
            <=> (reference_validate(s, e, probe.start_date, probe.end_date).kind = "ok")
       /\ full # {} => probe.verdict = Verdict("limit", Min(full), "")
       /\ (full = {} /\ partnered # {})
            => probe.verdict = Verdict("conflict", Min(partnered),
                                       FirstPartner(s, e, Min(partnered)))
       /\ (full = {} /\ partnered = {}) => probe.verdict = Verdict("ok", 0, "")
       /\ probe.verdict = form_validation(OnlyApproved(s), e, probe.start_date,
                                          probe.end_date)

\* C7 witness: the form reports a full day although a partner is approved on
\* an earlier day of the range.
C7_Witness ==
  /\ probe.fn = "validate"
  /\ probe.verdict.kind = "limit"
  /\ \E d \in probe.start_date..probe.end_date :
       d < probe.verdict.day /\ DayHasPartner(snap["s1"], probe.employee, d)

\* ---- C10: remaining leave
\* The days taken as annual leave: one per approved annual request of e and
\* day of its inclusive range.
AnnualDaysTaken(vacations, e) ==
  {<<i, d>> \in (1..Len(vacations)) \X (1..ValMaxDay) :
     /\ vacations[i].employee_name = e
     /\ vacations[i].status = "approved"
     /\ vacations[i].leave_type = "annual"
     /\ Covers(vacations[i], d)}

\* C10: on every snapshot the balance is computed and the remaining leave
\* shown is total_leave_days minus the number of days of the employee's
\* approved annual requests; nothing else counts.
C10_RemainingLeave ==
  probe.fn = "remaining"
    => /\ ~probe.raised
       /\ probe.remaining
            = snap["s1"].employees[CHOOSE i \in 1..Len(snap["s1"].employees) :
                  snap["s1"].employees[i].employee_name = probe.employee].total_leave_days
              - Cardinality(AnnualDaysTaken(snap["s1"].vacations, probe.employee))

\* (C10 on the snapshots whose vacations were parsed from a stored file)
RemainingLeaveOfParsed ==
  (probe.fn = "remaining" /\ snap["s1"].dated)
    => /\ ~probe.raised
       /\ probe.remaining
            = snap["s1"].employees[CHOOSE i \in 1..Len(snap["s1"].employees) :
                  snap["s1"].employees[i].employee_name = probe.employee].total_leave_days
              - Cardinality(AnnualDaysTaken(snap["s1"].vacations, probe.employee))

\* ---- C11: the balance after submits and approvals
StoredNames == SeqRange(employee_list(load_data(store, {})))

\* C11: for every stored employee the remaining leave computed from the
\* stored collections is not negative.
C11_RemainingNeverNegative ==
  \A e \in StoredNames :
    LET left == remaining_days(load_data(store, {}), e)
    IN ~left.raised => left.value >= 0

\* ---- C12: stored exclusion constraints
PairOf(row) == {row.employee_name_1, row.employee_name_2}

\* C12: every stored constraint names two distinct employees and no two stored
\* constraints hold the same pair, in either order.
C12_ConstraintsUnique ==
  /\ \A k \in 1..Len(StoredConstraints) :
       StoredConstraints[k].employee_name_1 # StoredConstraints[k].employee_name_2
  /\ \A j, k \in 1..Len(StoredConstraints) :
       j # k => PairOf(StoredConstraints[j]) # PairOf(StoredConstraints[k])

\* ---- C18: references to employees
\* C18: every stored request and every stored constraint names only employees
\* of the stored employees collection.
C18_ReferencesResolve ==
  /\ \A i \in 1..Len(StoredVacations) :
       StoredVacations[i].employee_name \in StoredNames
  /\ \A k \in 1..Len(StoredConstraints) : PairOf(StoredConstraints[k]) \subseteq StoredNames

\* ---- C14: the same request submitted twice
\* Session s finishes the PUT of a submit in this step and the store takes it.
SubmitAccepted(s) ==
  pc[s] = "submit_put" /\ pc'[s] = "submit_done" /\ op'[s].put = "accepted"

\* C14: every accepted submit leaves the stored requests as they were and adds
\* one pending request after them, also when an equal request is stored
\* already; two accepted submits of one payload add two records.
C14_EverySubmitAddsOne ==
  [][\A s \in Sessions :
       SubmitAccepted(s)
         => /\ Len(StoredVacations') = Len(StoredVacations) + 1
            /\ \A i \in 1..Len(StoredVacations) :
                 StoredVacations'[i] = StoredVacations[i]
            /\ StoredVacations'[Len(StoredVacations')].status = "pending"]_vars

\* ---- C16: create or conditional update
\* C16: the PUT of every handler is an update carrying the sha just read when
\* the GET found the file and a create when it did not; no create goes to a
\* file that exists and no update goes out without a sha.
C16_WritePathMatchesRead ==
  [][\A s \in Sessions :
       AnyPut(s)
         => /\ PutCall(op[s]) = (IF op[s].found THEN "update" ELSE "create")
            /\ PutCall(op[s]) = "update" => op[s].sha # NoSha
            /\ PutCall(op[s]) = "create" => ~store[op[s].path].exists]_vars

\* ---- C13: the cache after a mutation
\* C13: a run that begins after a write is not served a snapshot from before
\* it: whenever load_data() is answered from the cache, the cached tuple
\* holds, for every file whose GET was answered, the stored content.
C13_CacheNeverStale ==
  [][(runs' = runs + 1 /\ cache.valid)
       => cache.data = load_data(store, cache.data.failed)]_vars

\* ---- C15: the assistant
\* Session s takes a step of an assistant exchange: the question is
\* appended, or the exchange ends (answered by the service, failed, or stopped).
AssistantStep(s) ==
  \/ pc[s] = "loaded" /\ pc'[s] = "asking"
  \/ pc[s] = "asking" /\ pc'[s] = "idle"

\* The history q grown by at most one entry of the given role.
GrownBy(q, r, role) ==
  \/ r = q
  \/ Len(r) = Len(q) + 1 /\ SubSeq(r, 1, Len(q)) = q /\ r[Len(r)].role = role

\* C15: every step of an assistant exchange, whether the service replies,
\* fails or the run is stopped in between, leaves the store, the cached
\* snapshot, the loads in progress, the handlers' locals and results and the
\* other sessions' histories as they are and issues no GET; the session's
\* own history only grows: by the question, then by at most one answer.
C15_AssistantWritesNothing ==
  [][\A s \in Sessions :
       AssistantStep(s)
         => /\ store' = store
            /\ cache' = cache
            /\ loading' = loading
            /\ faults' = faults
            /\ op' = op
            /\ last' = last
            /\ \A t \in Sessions \ {s} : messages'[t] = messages[t]
            /\ GrownBy(messages[s], messages'[s],
                       IF pc[s] = "loaded" THEN "user" ELSE "assistant")]_vars

\* C15 witness: over a store that holds a request and with the snapshot
\* cached, one exchange was stopped after its question and a later one ended
\* with the error text of a failed completion.
C15_Witness ==
  /\ Len(messages["s1"]) >= 3
  /\ messages["s1"][Len(messages["s1"]) - 2].role = "user"
  /\ messages["s1"][Len(messages["s1"]) - 1].role = "user"
  /\ messages["s1"][Len(messages["s1"])] = Message("assistant", "error")
  /\ Len(StoredVacations) > 0
  /\ cache.valid
  /\ pc["s1"] = "idle"

\* ---- C17: the snapshot of load_data
\* C17: the tuple a load_data() call returns equals the content the store had
\* at one moment between the call's begin and its end.
C17_SnapshotIsAtomic ==
  [][\A s \in Sessions :
       (pc[s] = "loading" /\ pc'[s] = "loaded")
         => \E m \in loading[s].moments : snap'[s] = load_data(m, {})]_vars
====
